---- MODULE Spec2Model ----
(***************************************************************************)
(* Model of sci_name_parser.py: parse_scientific_name and                  *)
(* generate_scientific_columns.                                            *)
(*                                                                         *)
(* Text.  A Python str is modelled as a sequence of lexical atoms.  The    *)
(* characters the code inspects one by one (the blank, the other white     *)
(* space characters, "x", "X" and the multiplication sign U+00D7) are      *)
(* atoms of their own; every other atom is a run of characters that the    *)
(* code only ever compares as a whole ("Rosa", "var.", "subsp.").  No word *)
(* atom contains a blank, an x, an X or the sign, and no word atom is a    *)
(* concatenation of other atoms, so two texts are equal as Python strings  *)
(* exactly when they are equal as atom sequences.  The empty str is << >>. *)
(***************************************************************************)
EXTENDS Integers, Sequences, FiniteSets, TLC

VARIABLES pc, scientific_name, row, ingnore_form, returned, stdout, exc

vars == <<pc, scientific_name, row, ingnore_form, returned, stdout, exc>>

------------------------------------------------------------------------------
(* Atoms *)

HybridSign == "U+00D7"

Whitespace == {" ", "\t", "\n"}

SingleChars == Whitespace \cup {"x", "X", HybridSign}

CharLen(a) == IF a \in SingleChars THEN 1 ELSE Len(a)

RECURSIVE StrLen(_)
StrLen(s) == IF s = << >> THEN 0 ELSE CharLen(Head(s)) + StrLen(Tail(s))

Str(w) == <<w>>

hybrid == {Str(HybridSign)}

abbreviation_ignore ==
  {Str("cv"), Str("cv."), Str("var"), Str("var."), Str("sp"), Str("sp."),
   Str("ssp"), Str("ssp."), Str("sbsp"), Str("sbsp."), Str("subsp"),
   Str("subsp."), Str("X"), Str("x"), Str(HybridSign), Str("f.")}

------------------------------------------------------------------------------
(* str and list primitives, as CPython computes them *)

\* str.replace(old, new): leftmost occurrence first, the search resuming
\* after the replaced text, so occurrences that overlap a replaced one are
\* not seen.
RECURSIVE StrReplace(_, _, _)
StrReplace(s, old, new) ==
  IF Len(s) < Len(old) THEN s
  ELSE IF SubSeq(s, 1, Len(old)) = old
       THEN new \o StrReplace(SubSeq(s, Len(old) + 1, Len(s)), old, new)
       ELSE <<Head(s)>> \o StrReplace(Tail(s), old, new)

\* str.split() without arguments: the maximal runs of non-whitespace.
RECURSIVE SplitFrom(_, _, _)
SplitFrom(s, cur, acc) ==
  IF s = << >>
  THEN IF cur = << >> THEN acc ELSE Append(acc, cur)
  ELSE IF Head(s) \in Whitespace
       THEN SplitFrom(Tail(s), << >>, IF cur = << >> THEN acc ELSE Append(acc, cur))
       ELSE SplitFrom(Tail(s), Append(cur, Head(s)), acc)

StrSplit(s) == SplitFrom(s, << >>, << >>)

\* sub in s, for a one-character sub
StrContains(s, c) == \E i \in 1..Len(s) : s[i] = c

\* x in list
ListContains(list, x) == \E i \in 1..Len(list) : list[i] = x

\* list.index(x), 0-based, for a list that contains x
ListIndex(list, x) ==
  (CHOOSE i \in 1..Len(list) :
     list[i] = x /\ \A j \in 1..(i - 1) : list[j] # x) - 1

\* list[i] for a 0-based i >= 0: the item, or IndexError
ListItem(list, i) ==
  IF i + 1 \in 1..Len(list)
  THEN [raised |-> "", item |-> list[i + 1]]
  ELSE [raised |-> "IndexError", item |-> << >>]

\* list.pop(i) for a 0-based i inside the list: the list without the item
ListPop(list, i) == SubSeq(list, 1, i) \o SubSeq(list, i + 2, Len(list))

\* list(filter(None, list)): the non-empty items, in order
RECURSIVE FilterNone(_)
FilterNone(list) ==
  IF list = << >> THEN << >>
  ELSE IF Head(list) = << >> THEN FilterNone(Tail(list))
       ELSE <<Head(list)>> \o FilterNone(Tail(list))

------------------------------------------------------------------------------
(* parse_scientific_name: its local variables are the fields of a frame *)

Diagnostic(text, name) == [text |-> text, name |-> name]

Frame(name, flag, tokens) ==
  [scientific_name |-> name, ingnore_form |-> flag,
   scientific_name_tokens |-> tokens,
   Taxon_Rank |-> << >>, Genus |-> << >>, Species |-> << >>,
   Genus_Hybrid |-> << >>, Species_Hybrid |-> << >>, Infraspecies |-> << >>,
   Variety |-> << >>, Subspecies |-> << >>, Form |-> << >>,
   stdout |-> << >>, exc |-> ""]

\* scientific_name.replace(' x ',' U+00D7 ').replace(' X ',' U+00D7 ')
Clean(name) ==
  StrReplace(StrReplace(name, <<" ", "x", " ">>, <<" ", HybridSign, " ">>),
             <<" ", "X", " ">>, <<" ", HybridSign, " ">>)

Tokenize(name) == StrSplit(Clean(name))

\* GenusHybridStage without the length test of line 79
GenusHybridStage_NoLengthCheck(f) ==
  LET first == f.scientific_name_tokens[1] IN
  IF Str(Head(first)) \in hybrid
  THEN [f EXCEPT !.Genus_Hybrid = Str(HybridSign),
                 !.scientific_name_tokens[1] = Tail(first)]
  ELSE f

\* a hybrid sign glued to the front of the first token
GenusHybridStage(f) ==
  LET first == f.scientific_name_tokens[1] IN
  IF Str(Head(first)) \in hybrid /\ StrLen(first) # 1
  THEN [f EXCEPT !.Genus_Hybrid = Str(HybridSign),
                 !.scientific_name_tokens[1] = Tail(first)]
  ELSE f

\* Genus, then 'Genus' and 'Genus cv.'; both operands of & are evaluated
GenusStage(f) ==
  LET tokens == f.scientific_name_tokens
      g == [f EXCEPT !.Genus = tokens[1]]
  IN IF Len(tokens) = 1
     THEN [g EXCEPT !.Taxon_Rank = Str("Genus")]
     ELSE LET second == ListItem(tokens, 1) IN
          IF second.raised # ""
          THEN [g EXCEPT !.exc = second.raised]
          ELSE IF Len(tokens) = 2 /\ second.item \in abbreviation_ignore
               THEN [g EXCEPT !.Taxon_Rank = Str("Genus"),
                              !.scientific_name_tokens = ListPop(tokens, 1)]
               ELSE g

\* a hybrid sign anywhere in any token
SpeciesHybridStage(f) ==
  LET tokens == f.scientific_name_tokens IN
  IF \E i \in 1..Len(tokens) : StrContains(tokens[i], HybridSign)
  THEN [f EXCEPT !.Species_Hybrid = Str(HybridSign),
                 !.scientific_name_tokens =
                    FilterNone([i \in 1..Len(tokens) |->
                                  StrReplace(tokens[i], Str(HybridSign), << >>)])]
  ELSE f

\* SpeciesStage without the rank assignment of line 103
SpeciesStage_KeepsRank(f) ==
  IF Len(f.scientific_name_tokens) > 1
  THEN [f EXCEPT !.Species = f.scientific_name_tokens[2]]
  ELSE f

SpeciesStage(f) ==
  IF Len(f.scientific_name_tokens) > 1
  THEN [f EXCEPT !.Species = f.scientific_name_tokens[2],
                 !.Taxon_Rank = Str("Species")]
  ELSE f

\* the if/elif chain of a scan: the first abbreviation of `chain` that is in
\* the token list, or << >> (no token is empty) when none is
RECURSIVE FirstPresent(_, _)
FirstPresent(tokens, chain) ==
  IF chain = << >> THEN << >>
  ELSE IF ListContains(tokens, Head(chain)) THEN Head(chain)
       ELSE FirstPresent(tokens, Tail(chain))

\* tokens[tokens.index(abbr)+1]
EpithetAfter(tokens, abbr) == ListItem(tokens, ListIndex(tokens, abbr) + 1)

VarietyChain == <<Str("var."), Str("var")>>

\* VarietyScan writing the subspecies field too
VarietyScan_SetsSubspecies(f) ==
  LET abbr == FirstPresent(f.scientific_name_tokens, VarietyChain) IN
  IF abbr = << >> THEN f
  ELSE LET got == EpithetAfter(f.scientific_name_tokens, abbr) IN
       IF got.raised = "IndexError"
       THEN [f EXCEPT !.stdout =
               Append(@, Diagnostic("variety index out of range: ", f.scientific_name))]
       ELSE [f EXCEPT !.Infraspecies = got.item, !.Variety = got.item,
                      !.Subspecies = got.item, !.Taxon_Rank = Str("Variety")]

VarietyScan(f) ==
  LET abbr == FirstPresent(f.scientific_name_tokens, VarietyChain) IN
  IF abbr = << >> THEN f
  ELSE LET got == EpithetAfter(f.scientific_name_tokens, abbr) IN
       IF got.raised = "IndexError"
       THEN [f EXCEPT !.stdout =
               Append(@, Diagnostic("variety index out of range: ", f.scientific_name))]
       ELSE [f EXCEPT !.Infraspecies = got.item, !.Variety = got.item,
                      !.Taxon_Rank = Str("Variety")]

SubspeciesChain == <<Str("subsp."), Str("ssp."), Str("sbsp."), Str("subsp")>>

\* SubspeciesScan with a silent except clause
SubspeciesScan_NoDiagnostic(f) ==
  LET abbr == FirstPresent(f.scientific_name_tokens, SubspeciesChain) IN
  IF abbr = << >> THEN f
  ELSE LET got == EpithetAfter(f.scientific_name_tokens, abbr) IN
       IF got.raised = "IndexError"
       THEN f
       ELSE [f EXCEPT !.Infraspecies = got.item, !.Subspecies = got.item,
                      !.Taxon_Rank = Str("Subspecies")]

SubspeciesScan(f) ==
  LET abbr == FirstPresent(f.scientific_name_tokens, SubspeciesChain) IN
  IF abbr = << >> THEN f
  ELSE LET got == EpithetAfter(f.scientific_name_tokens, abbr) IN
       IF got.raised = "IndexError"
       THEN [f EXCEPT !.stdout =
               Append(@, Diagnostic("subspecies index out of range: ", f.scientific_name))]
       ELSE [f EXCEPT !.Infraspecies = got.item, !.Subspecies = got.item,
                      !.Taxon_Rank = Str("Subspecies")]

FormChain == <<Str("f.")>>

\* FormScan that runs whatever the flag
FormScan_IgnoresFlag(f) ==
  LET abbr == FirstPresent(f.scientific_name_tokens, FormChain) IN
  IF abbr = << >> THEN f
  ELSE LET got == EpithetAfter(f.scientific_name_tokens, abbr) IN
       IF got.raised = "IndexError"
       THEN [f EXCEPT !.stdout =
               Append(@, Diagnostic("form index out of range: ", f.scientific_name))]
       ELSE [f EXCEPT !.Infraspecies = got.item, !.Form = got.item,
                      !.Taxon_Rank = Str("Form")]

\* FormScan that sets form and rank but not infraspecies
FormScan_KeepsInfraspecies(f) ==
  IF f.ingnore_form THEN f
  ELSE LET abbr == FirstPresent(f.scientific_name_tokens, FormChain) IN
       IF abbr = << >> THEN f
       ELSE LET got == EpithetAfter(f.scientific_name_tokens, abbr) IN
            IF got.raised = "IndexError"
            THEN [f EXCEPT !.stdout =
                    Append(@, Diagnostic("form index out of range: ", f.scientific_name))]
            ELSE [f EXCEPT !.Form = got.item, !.Taxon_Rank = Str("Form")]

FormScan(f) ==
  IF f.ingnore_form THEN f
  ELSE LET abbr == FirstPresent(f.scientific_name_tokens, FormChain) IN
       IF abbr = << >> THEN f
       ELSE LET got == EpithetAfter(f.scientific_name_tokens, abbr) IN
            IF got.raised = "IndexError"
            THEN [f EXCEPT !.stdout =
                    Append(@, Diagnostic("form index out of range: ", f.scientific_name))]
            ELSE [f EXCEPT !.Infraspecies = got.item, !.Form = got.item,
                           !.Taxon_Rank = Str("Form")]

\* lines 78-103, from the frame of a non-empty token list to the frame the
\* scans begin with; an exception that leaves a statement ends the call
GenusAndSpecies(f) ==
  LET g == GenusStage(GenusHybridStage(f)) IN
  IF g.exc # "" THEN g ELSE SpeciesStage(SpeciesHybridStage(g))

\* lines 105-142, to the frame the record is assembled from
Scans(f) ==
  IF f.exc # "" THEN f ELSE FormScan(SubspeciesScan(VarietyScan(f)))

ParsedName(f) ==
  [taxon_rank |-> f.Taxon_Rank, genus |-> f.Genus, species |-> f.Species,
   genus_hybrid |-> f.Genus_Hybrid, species_hybrid |-> f.Species_Hybrid,
   infraspecies |-> f.Infraspecies, variety |-> f.Variety,
   subspecies |-> f.Subspecies, form |-> f.Form]

NoValue == [k \in {} |-> << >>]

\* the outcome of a call: what it returned (kind "None", "dict", or "raise"
\* when an exception left it), what it printed, the exception
parse_scientific_name(name, flag) ==
  LET tokens == Tokenize(name) IN
  IF Len(tokens) = 0
  THEN [kind |-> "None", value |-> NoValue, stdout |-> << >>, exc |-> ""]
  ELSE LET f == Scans(GenusAndSpecies(Frame(name, flag, tokens))) IN
       IF f.exc # ""
       THEN [kind |-> "raise", value |-> NoValue, stdout |-> f.stdout, exc |-> f.exc]
       ELSE [kind |-> "dict", value |-> ParsedName(f), stdout |-> f.stdout, exc |-> ""]

------------------------------------------------------------------------------
(* generate_scientific_columns *)

\* for key in parsed: row[key] = parsed[key]
RowUpdate(r, parsed) ==
  [k \in (DOMAIN r) \cup (DOMAIN parsed) |->
     IF k \in DOMAIN parsed THEN parsed[k] ELSE r[k]]

\* iterating over None raises TypeError before the row is touched
generate_scientific_columns(r, scientific_name_col, ignore_form) ==
  LET parsed == parse_scientific_name(r[scientific_name_col], ignore_form) IN
  IF parsed.kind = "raise"
  THEN [kind |-> "raise", row |-> r, stdout |-> parsed.stdout, exc |-> parsed.exc]
  ELSE IF parsed.kind = "None"
       THEN [kind |-> "raise", row |-> r, stdout |-> parsed.stdout, exc |-> "TypeError"]
       ELSE [kind |-> "row", row |-> RowUpdate(r, parsed.value),
             stdout |-> parsed.stdout, exc |-> ""]

------------------------------------------------------------------------------
(* The inputs: up to MaxTokens words of Pool joined by single blanks.  The *)
(* empty word gives leading, trailing and doubled blanks.                  *)

MaxTokens == 4

\* the words joined by single blanks, as " ".join(words) does
RECURSIVE StrJoin(_)
StrJoin(list) ==
  IF list = << >> THEN << >>
  ELSE IF Len(list) = 1 THEN Head(list)
       ELSE Head(list) \o <<" ">> \o StrJoin(Tail(list))

Pool ==
  {<< >>, Str("Rosa"), Str("alba"), Str(HybridSign), Str("x"),
   <<HybridSign, "Rosa">>, Str("var."), Str("var"), Str("subsp."), Str("f.")}

Inputs == {StrJoin(words) : words \in UNION {[1..n -> Pool] : n \in 0..MaxTokens}}

NameCol == "scientific_name"

Row(name) == [scientific_name |-> name, id |-> Str("1")]

NotCalled == [kind |-> "not called", value |-> NoValue]

Init ==
  /\ pc = "ready"
  /\ scientific_name \in Inputs
  /\ row = Row(scientific_name)
  /\ ingnore_form = FALSE
  /\ returned = NotCalled
  /\ stdout = << >>
  /\ exc = ""

\* a caller parses the name
ParseScientificName ==
  /\ pc = "ready"
  /\ \E flag \in BOOLEAN :
       LET out == parse_scientific_name(scientific_name, flag) IN
       /\ ingnore_form' = flag
       /\ returned' = [kind |-> out.kind, value |-> out.value]
       /\ stdout' = out.stdout
       /\ exc' = out.exc
  /\ pc' = "parsed"
  /\ UNCHANGED <<scientific_name, row>>

\* a caller (DataFrame.apply) annotates the row
GenerateScientificColumns ==
  /\ pc = "ready"
  /\ \E flag \in BOOLEAN :
       LET out == generate_scientific_columns(row, NameCol, flag) IN
       /\ ingnore_form' = flag
       /\ returned' = [kind |-> out.kind, value |-> NoValue]
       /\ row' = out.row
       /\ stdout' = out.stdout
       /\ exc' = out.exc
  /\ pc' = "generated"
  /\ UNCHANGED scientific_name

Next == ParseScientificName \/ GenerateScientificColumns

Spec == Init /\ [][Next]_vars

------------------------------------------------------------------------------
(* Vocabulary of the properties *)

\* parse_scientific_name was called and returned a record
ParsedRecord == pc = "parsed" /\ returned.kind = "dict"

FieldNames ==
  {"taxon_rank", "genus", "species", "genus_hybrid", "species_hybrid",
   "infraspecies", "variety", "subspecies", "form"}

\* the whitespace-delimited tokens of the input as given
InputTokens == StrSplit(scientific_name)

\* the frame the three scans begin with, and the token list they search
BeforeScans ==
  GenusAndSpecies(Frame(scientific_name, ingnore_form, Tokenize(scientific_name)))

ScannedTokens == BeforeScans.scientific_name_tokens

Occurs(tokens, t) == \E i \in 1..Len(tokens) : tokens[i] = t

\* chain[k] is the abbreviation a scan settles on: the first of its chain
\* that occurs at all
Selected(tokens, chain, k) ==
  /\ Occurs(tokens, chain[k])
  /\ \A j \in 1..(k - 1) : ~Occurs(tokens, chain[j])

\* the scan finds its abbreviation followed by a token
Hit(tokens, chain) ==
  \E k \in 1..Len(chain) :
    /\ Selected(tokens, chain, k)
    /\ \E i \in 1..(Len(tokens) - 1) :
         tokens[i] = chain[k] /\ \A j \in 1..(i - 1) : tokens[j] # chain[k]

\* the scan finds its abbreviation, first met as the last token
Miss(tokens, chain) ==
  \E k \in 1..Len(chain) :
    /\ Selected(tokens, chain, k)
    /\ tokens[Len(tokens)] = chain[k]
    /\ \A j \in 1..(Len(tokens) - 1) : tokens[j] # chain[k]

Printed(text) ==
  \E i \in 1..Len(stdout) : stdout[i] = Diagnostic(text, scientific_name)

SetFields == {k \in {"variety", "subspecies", "form"} : returned.value[k] # << >>}

\* the ranks whose scan finds its abbreviation followed by a token
RanksHit ==
  {k \in {"variety", "subspecies", "form"} :
     \/ k = "variety" /\ Hit(ScannedTokens, VarietyChain)
     \/ k = "subspecies" /\ Hit(ScannedTokens, SubspeciesChain)
     \/ k = "form" /\ ~ingnore_form /\ Hit(ScannedTokens, FormChain)}

------------------------------------------------------------------------------
(* C1 *)

\* C1 as stated: every returned record has at most one of variety,
\* subspecies and form non-empty.
C1_AtMostOneInfraspecificField == ParsedRecord => Cardinality(SetFields) <= 1

\* C1 amended: each of variety, subspecies and form is non-empty exactly
\* when its own scan found its abbreviation followed by a token (the form
\* scan running only with ignore_form false); so at most one is non-empty
\* unless abbreviations of several ranks are each followed by a token, and
\* then each of those fields is.
C1_FieldSetIffOwnScanHit == ParsedRecord => SetFields = RanksHit

C1_Witness ==
  /\ ParsedRecord
  /\ Occurs(ScannedTokens, Str("f."))
  /\ RanksHit = {"variety"}
  /\ SetFields = {"variety"}

------------------------------------------------------------------------------
(* C2 *)

RankAbbreviations ==
  {Str("var."), Str("var"), Str("subsp."), Str("ssp."), Str("sbsp."), Str("subsp")}
    \cup (IF ingnore_form THEN {} ELSE {Str("f.")})

FieldOfAbbreviation(t) ==
  IF t \in {Str("var."), Str("var")} THEN "variety"
  ELSE IF t = Str("f.") THEN "form" ELSE "subspecies"

\* C2 as stated: when the final token of the input is a recognized rank
\* abbreviation, the call returns a record without raising, the field of
\* that rank is unset and a diagnostic naming the input was printed.
C2_FinalAbbreviationReported ==
  (/\ pc = "parsed"
   /\ InputTokens # << >>
   /\ InputTokens[Len(InputTokens)] \in RankAbbreviations)
  => /\ returned.kind = "dict"
     /\ returned.value[FieldOfAbbreviation(InputTokens[Len(InputTokens)])] = << >>
     /\ \E i \in 1..Len(stdout) : stdout[i].name = scientific_name

\* C2 amended: when the abbreviation a scan settles on (the first of
\* var./var, of subsp./ssp./sbsp./subsp, or f. with ignore_form false, that
\* occurs among the scanned tokens) is first met as the last scanned token,
\* the call returns a record without raising, the field of that rank is
\* unset and the diagnostic of that scan, naming the input, was printed.
C2_MissReported ==
  (pc = "parsed" /\ Tokenize(scientific_name) # << >>)
  => /\ Miss(ScannedTokens, VarietyChain)
          => /\ returned.kind = "dict"
             /\ returned.value.variety = << >>
             /\ Printed("variety index out of range: ")
     /\ Miss(ScannedTokens, SubspeciesChain)
          => /\ returned.kind = "dict"
             /\ returned.value.subspecies = << >>
             /\ Printed("subspecies index out of range: ")
     /\ (~ingnore_form /\ Miss(ScannedTokens, FormChain))
          => /\ returned.kind = "dict"
             /\ returned.value.form = << >>
             /\ Printed("form index out of range: ")

C2_Witness ==
  /\ ParsedRecord
  /\ Miss(ScannedTokens, SubspeciesChain)
  /\ returned.value.subspecies = << >>
  /\ Printed("subspecies index out of range: ")
  /\ returned.value.species # << >>

------------------------------------------------------------------------------
(* C3 *)

\* C3: the call never raises; it returns None exactly when the input has no
\* whitespace-delimited token, and otherwise a record of the nine fields
\* whose genus is non-empty.
C3_TotalAndGenusNonEmpty ==
  pc = "parsed"
  => /\ exc = ""
     /\ returned.kind \in {"None", "dict"}
     /\ returned.kind = "None"
          <=> \A i \in 1..Len(scientific_name) : scientific_name[i] \in Whitespace
     /\ returned.kind = "dict"
          => /\ DOMAIN returned.value = FieldNames
             /\ returned.value.genus # << >>

C3_Witness ==
  /\ ParsedRecord
  /\ InputTokens = <<Str(HybridSign)>>
  /\ returned.value.genus = Str(HybridSign)
  /\ Head(scientific_name) = " "

------------------------------------------------------------------------------
(* C4 *)

\* C4: infraspecies is the value of the last of variety, subspecies, form
\* (in that order) that was set, and empty when none was; a later scan that
\* meets its abbreviation as the last token leaves it alone.
C4_InfraspeciesIsLastSet ==
  ParsedRecord
  => LET r == returned.value IN
     r.infraspecies =
       IF r.form # << >> THEN r.form
       ELSE IF r.subspecies # << >> THEN r.subspecies
       ELSE r.variety

C4_Witness ==
  /\ ParsedRecord
  /\ returned.value.variety # << >>
  /\ returned.value.form = << >>
  /\ Printed("form index out of range: ")
  /\ returned.value.infraspecies = returned.value.variety

------------------------------------------------------------------------------
(* C5 *)

\* C5: taxon_rank is the rank of the last scan, in the order variety,
\* subspecies, form, that found its abbreviation followed by a token (form
\* only with ignore_form false), wherever the abbreviations stand; when no
\* scan did, it is what the genus and species stages left.  With
\* ignore_form true, form is empty and taxon_rank is not Form.
C5_RankOfLastHit ==
  ParsedRecord
  => /\ returned.value.taxon_rank =
          IF ~ingnore_form /\ Hit(ScannedTokens, FormChain) THEN Str("Form")
          ELSE IF Hit(ScannedTokens, SubspeciesChain) THEN Str("Subspecies")
          ELSE IF Hit(ScannedTokens, VarietyChain) THEN Str("Variety")
          ELSE BeforeScans.Taxon_Rank
     /\ ingnore_form
          => /\ returned.value.form = << >>
             /\ returned.value.taxon_rank # Str("Form")

\* "subsp." epithet standing before the "var." epithet, and an "f." epithet
\* ignored
C5_Witness ==
  /\ ParsedRecord
  /\ ingnore_form
  /\ Hit(ScannedTokens, FormChain)
  /\ Hit(ScannedTokens, VarietyChain)
  /\ returned.value.taxon_rank = Str("Subspecies")

------------------------------------------------------------------------------
(* C6 *)

\* the tokens after the genus-hybrid prefix strip
StrippedTokens ==
  GenusHybridStage(Frame(scientific_name, ingnore_form, Tokenize(scientific_name)))
    .scientific_name_tokens

\* C6: species_hybrid is set only if a token other than the genus token
\* (index >= 1 after the prefix strip) contains a hybrid sign.
C6_SpeciesHybridOnlyBeyondGenus ==
  (ParsedRecord /\ returned.value.species_hybrid # << >>)
  => \E i \in 2..Len(StrippedTokens) : StrContains(StrippedTokens[i], HybridSign)

------------------------------------------------------------------------------
(* C7 *)

\* genus, species and infraspecies, the non-empty ones, joined by blanks
Recombined(r) == StrJoin(FilterNone(<<r.genus, r.species, r.infraspecies>>))

\* C7: parsing the recombined fields again, with the same flag, gives a
\* record with the same genus and the same species.
C7_RoundTrip ==
  ParsedRecord
  => LET again == parse_scientific_name(Recombined(returned.value), ingnore_form) IN
     /\ again.kind = "dict"
     /\ again.value.genus = returned.value.genus
     /\ again.value.species = returned.value.species

------------------------------------------------------------------------------
(* C8 *)

\* s with every standalone x or X that has a blank on each side replaced by
\* the hybrid sign
WithHybridSigns(s) ==
  [i \in 1..Len(s) |->
     IF /\ s[i] \in {"x", "X"}
        /\ 1 < i /\ i < Len(s)
        /\ s[i - 1] = " " /\ s[i + 1] = " "
     THEN HybridSign ELSE s[i]]

\* C8: the call returns the same for s and for s with its standalone x
\* tokens written as hybrid signs, several in a row included.
C8_AsciiXIsHybridSign ==
  pc = "parsed"
  => LET other == parse_scientific_name(WithHybridSigns(scientific_name), ingnore_form) IN
     /\ other.kind = returned.kind
     /\ other.value = returned.value

------------------------------------------------------------------------------
(* C9 *)

\* C9: species is non-empty only if taxon_rank is Species, Variety,
\* Subspecies or Form; with taxon_rank Genus, species is empty.
C9_SpeciesOnlyFromSpeciesRank ==
  ParsedRecord
  => /\ returned.value.species # << >>
          => returned.value.taxon_rank \in
               {Str("Species"), Str("Variety"), Str("Subspecies"), Str("Form")}
     /\ returned.value.taxon_rank = Str("Genus") => returned.value.species = << >>

\* two tokens, the second an ignorable abbreviation that is discarded
C9_Witness ==
  /\ ParsedRecord
  /\ Len(InputTokens) = 2
  /\ InputTokens[2] \in abbreviation_ignore
  /\ returned.value.taxon_rank = Str("Genus")
  /\ returned.value.species = << >>

------------------------------------------------------------------------------
(* C10 *)

\* C10: for a row whose name column holds a string,
\* generate_scientific_columns returns the row with the nine fields set to
\* what parse_scientific_name returns for that string and flag, every other
\* column unchanged.
C10_RowAnnotated ==
  pc = "generated"
  => LET parsed == parse_scientific_name(scientific_name, ingnore_form) IN
     /\ returned.kind = "row"
     /\ parsed.kind = "dict"
     /\ \A k \in FieldNames : k \in DOMAIN row /\ row[k] = parsed.value[k]
     /\ \A k \in DOMAIN Row(scientific_name) : row[k] = Row(scientific_name)[k]

====
